---------------------------- MODULE Spec2Model ----------------------------
(***************************************************************************)
(* The emoji URL shortener back end: the express router of                 *)
(* src/unnamed/part_000 (GET /, GET /last/:num, GET /:id, POST /newURL and *)
(* the error handler) and the GET /:id handler of src/api.js, running      *)
(* against one MongoDB collection "urls" with a unique index on `emojis`.  *)
(*                                                                         *)
(* Strings are sequences of Unicode code points.  Every await on the store *)
(* is one atomic step of the store; the code that runs between two awaits  *)
(* is local to the request and is folded into the step that follows it.    *)
(***************************************************************************)
EXTENDS Integers, Sequences, FiniteSets, TLC

(***************************************************************************)
(* punycode.encode (RFC 3492), as called at part_000:79,129,139.           *)
(***************************************************************************)
base == 36
tMin == 1
tMax == 26
skew == 38
damp == 700
initialBias == 72
initialN == 128
delimiter == 45
maxInt == 2147483647

\* digitToBasic(digit, 0): 0..25 -> 'a'..'z', 26..35 -> '0'..'9'
digitToBasic(digit) == IF digit < 26 THEN digit + 97 ELSE digit + 22

RECURSIVE adaptLoop(_, _)
adaptLoop(delta, k) ==
    IF delta > ((base - tMin) * tMax) \div 2
    THEN adaptLoop(delta \div (base - tMin), k + base)
    ELSE k + ((base - tMin + 1) * delta) \div (delta + skew)

\* adapt(delta, numPoints, firstTime): the bias adaptation
adapt(delta, numPoints, firstTime) ==
    LET d1 == IF firstTime THEN delta \div damp ELSE delta \div 2
        d2 == d1 + (d1 \div numPoints)
    IN  adaptLoop(d2, 0)

\* the threshold t of digit position k under the current bias
threshold(k, bias) ==
    IF k <= bias THEN tMin ELSE IF k >= bias + tMax THEN tMax ELSE k - bias

\* the generalized variable-length integer of q, appended to out
RECURSIVE encodeVarInt(_, _, _, _)
encodeVarInt(q, k, bias, out) ==
    LET t == threshold(k, bias)
    IN  IF q < t
        THEN Append(out, digitToBasic(q))
        ELSE encodeVarInt((q - t) \div (base - t), k + base, bias,
                          Append(out, digitToBasic(t + ((q - t) % (base - t)))))

\* the basic (ASCII) code points of input, in order
RECURSIVE basicPoints(_)
basicPoints(input) ==
    IF input = << >> THEN << >>
    ELSE IF Head(input) < 128
         THEN << Head(input) >> \o basicPoints(Tail(input))
         ELSE basicPoints(Tail(input))

\* the smallest code point >= n of input (maxInt when there is none)
minPointAtLeast(input, n) ==
    LET S == { input[i] : i \in 1..Len(input) } \cap { c \in Nat : c >= n }
    IN  IF S = {} THEN maxInt ELSE CHOOSE m \in S : \A x \in S : m <= x

\* the inner for-loop over the input of one round of the main loop
RECURSIVE encodeScan(_, _, _, _)
encodeScan(input, i, n, st) ==
    IF i > Len(input) THEN st
    ELSE LET cv == input[i]
             d  == IF cv < n THEN st.delta + 1 ELSE st.delta
         IN  IF cv = n
             THEN encodeScan(input, i + 1, n,
                    [ out     |-> encodeVarInt(d, base, st.bias, st.out),
                      bias    |-> adapt(d, st.handled + 1, st.handled = st.basicLength),
                      delta   |-> 0,
                      handled |-> st.handled + 1,
                      basicLength |-> st.basicLength ])
             ELSE encodeScan(input, i + 1, n, [ st EXCEPT !.delta = d ])

\* the main while-loop: one round per distinct non-basic code point
RECURSIVE encodeRounds(_, _, _)
encodeRounds(input, n, st) ==
    IF st.handled >= Len(input) THEN st.out
    ELSE LET m  == minPointAtLeast(input, n)
             s1 == [ st EXCEPT !.delta = st.delta + (m - n) * (st.handled + 1) ]
             s2 == encodeScan(input, 1, m, s1)
         IN  encodeRounds(input, m + 1, [ s2 EXCEPT !.delta = s2.delta + 1 ])

\* punycode.encode(input)
encode(input) ==
    LET b   == basicPoints(input)
        out == IF Len(b) > 0 THEN Append(b, delimiter) ELSE b
    IN  encodeRounds(input, initialN,
            [ out |-> out, bias |-> initialBias, delta |-> 0,
              handled |-> Len(b), basicLength |-> Len(b) ])


(***************************************************************************)
(* Values.  A missing JSON field (undefined) is NoValue for a string of    *)
(* code points and NoUrl for a url.                                        *)
(***************************************************************************)
NoValue == << -1 >>
NoUrl == "undefined"

\* JavaScript truthiness of a string-or-undefined value (`emojis ? ... : ...`)
Truthy(s) == s # NoValue /\ s # << >>

\* (mutant) the slice drops nothing
SliceDropsNothing(s) == s

\* String.prototype.slice(0, -1)
SliceDropLast(s) == IF Len(s) = 0 THEN << >> ELSE SubSeq(s, 1, Len(s) - 1)

\* Array.prototype.slice(start): a negative start counts from the end
SliceFrom(arr, start) ==
    LET from == IF start < 0
                THEN (IF Len(arr) + start < 0 THEN 0 ELSE Len(arr) + start)
                ELSE (IF start > Len(arr) THEN Len(arr) ELSE start)
    IN  SubSeq(arr, from + 1, Len(arr))

\* Array.prototype.reverse()
Reverse(arr) == [ i \in 1..Len(arr) |-> arr[Len(arr) + 1 - i] ]

(***************************************************************************)
(* Configuration and messages.                                             *)
(***************************************************************************)
port == 4000
domain == "localhost"
existsErrorMessage == "This emoji slug already exists"
emojiErrorMessage == "There must be at least 1 emoji in the slug"
urlInvalidMessage == "url must be a valid URL"
urlRequiredMessage == "url is a required field"
emojisMatchMessage == "emojis must match the following: /^[\\w\\-]/i"
duplicateKeyMessage == "E11000 duplicate key error"
storeFailureMessage == "store failure"

(***************************************************************************)
(* The requests the clients send.                                          *)
(***************************************************************************)
NumRequests == 3
MaxNum == 2
Slots == 1..NumRequests

\* the glyphs nodeEmoji.random().emoji draws from (cat face, dog face)
Catalog == { << 128049 >>, << 128054 >> }
SlugLen == 5

RECURSIVE Draws(_)
Draws(n) == IF n = 0 THEN { << >> }
            ELSE { s \o g : s \in Draws(n - 1), g \in Catalog }

\* the strings the loop of generateRandomEmojis can build, and the ones the
\* model lets it draw: one glyph repeated (five cats, five dogs)
Candidates == { c \in Draws(SlugLen) : \A i \in 1..Len(c) : c[i] = c[1] }

CatSlug == << 128049, 128049, 128049, 128049, 128049 >>
\* requested slugs: none, "", five cats (also a candidate), "a", "a" + cat
RequestedSlugs == { NoValue, << >>, CatSlug, << 97 >>, << 97, 128049 >> }
GoodUrls == { "https://a.com", "https://b.com" }
Urls == GoodUrls \cup { "not-a-url", NoUrl }
\* ids asked of GET /:id: a canonical key and a raw slug
Ids == { encode(CatSlug), CatSlug }
Variants == { "part_000", "api.js" }

\* punycode.encode, tabulated over the strings of the model
Strings == Candidates \cup (RequestedSlugs \ { NoValue })
encodeTable == [ s \in Strings |-> encode(s) ]

\* (mutant) the slug is stored as it came, not encoded
EncodedAsIs(s) == s

Encoded(s) == encodeTable[s]

(***************************************************************************)
(* recordSchema (yup).  url: string().trim().url().required();             *)
(* emojis: string().trim().matches(/^[\w\-]/i), optional.                  *)
(***************************************************************************)
RECURSIVE TrimLeft(_)
TrimLeft(s) == IF s # << >> /\ Head(s) = 32 THEN TrimLeft(Tail(s)) ELSE s
Trim(s) == Reverse(TrimLeft(Reverse(TrimLeft(s))))

IsWordChar(c) == \/ c \in 48..57 \/ c \in 65..90 \/ c \in 97..122
                 \/ c = 95 \/ c = 45
MatchesSlugPattern(s) == LET t == Trim(s) IN t # << >> /\ IsWordChar(Head(t))
IsUrl(u) == u \in GoodUrls

\* recordSchema.validate(obj): "" when valid, else the message of the
\* ValidationError it rejects with
Validate(obj) ==
    IF obj.emojis # NoValue /\ ~MatchesSlugPattern(obj.emojis)
    THEN emojisMatchMessage
    ELSE IF obj.url = NoUrl THEN urlRequiredMessage
    ELSE IF ~IsUrl(obj.url) THEN urlInvalidMessage
    ELSE ""

(***************************************************************************)
(* The store: the documents of the "urls" collection in insertion order,   *)
(* with a unique index on `emojis`.                                        *)
(***************************************************************************)
KeysOf(docs) == { docs[i].emojis : i \in 1..Len(docs) }

\* (mutant) the query matches the `raw` field instead of `emojis`
FindOneByRaw(docs, key) ==
    LET hits == { i \in 1..Len(docs) : docs[i].raw = key }
    IN  IF hits = {} THEN << >>
        ELSE << docs[CHOOSE i \in hits : \A j \in hits : i <= j] >>

\* urls.findOne({ emojis: key }): the documents found (none or one)
FindOne(docs, key) ==
    LET hits == { i \in 1..Len(docs) : docs[i].emojis = key }
    IN  IF hits = {} THEN << >>
        ELSE << docs[CHOOSE i \in hits : \A j \in hits : i <= j] >>

\* (mutant) keyExists answers true whatever the store holds
KeyExistsAlways(docs, key) == TRUE

\* keyExists(key)
KeyExists(docs, key) == FindOne(docs, key) # << >>

\* (mutant) the collection has no unique index
InsertDocNoIndex(docs, doc) ==
    [ ok |-> TRUE,
      docs |-> Append(docs, [ id |-> Len(docs) + 1, emojis |-> doc.emojis,
                              url |-> doc.url, raw |-> doc.raw ]) ]

\* (mutant) the document is written before the duplicate is noticed
InsertDocWritesFirst(docs, doc) ==
    [ ok |-> doc.emojis \notin KeysOf(docs),
      docs |-> Append(docs, [ id |-> Len(docs) + 1, emojis |-> doc.emojis,
                              url |-> doc.url, raw |-> doc.raw ]) ]

\* (mutant) a duplicate key replaces the stored document (an upsert)
InsertDocUpsert(docs, doc) ==
    IF doc.emojis \in KeysOf(docs)
    THEN [ ok |-> FALSE,
           docs |-> [ i \in 1..Len(docs) |->
                        IF docs[i].emojis = doc.emojis
                        THEN [ docs[i] EXCEPT !.url = doc.url, !.raw = doc.raw ]
                        ELSE docs[i] ] ]
    ELSE [ ok |-> TRUE,
           docs |-> Append(docs, [ id |-> Len(docs) + 1, emojis |-> doc.emojis,
                                   url |-> doc.url, raw |-> doc.raw ]) ]

\* urls.insert(doc) under the unique index: the collection afterwards and
\* whether the insert was accepted
InsertDoc(docs, doc) ==
    IF doc.emojis \in KeysOf(docs)
    THEN [ ok |-> FALSE, docs |-> docs ]
    ELSE [ ok |-> TRUE,
           docs |-> Append(docs, [ id |-> Len(docs) + 1, emojis |-> doc.emojis,
                                   url |-> doc.url, raw |-> doc.raw ]) ]

(***************************************************************************)
(* The error handler (app.use((error, req, res, next) => ...)).            *)
(***************************************************************************)
\* the errors the routes raise: new Error(message), yup's ValidationError
\* and the driver's errors, none of which carries a `status` (0 here)
Error(message) == [ status |-> 0, message |-> message ]

\* (mutant) the two messages of the router share the status 444
ErrorStatusShared(error) ==
    IF error.status # 0 THEN error.status
    ELSE IF error.message \in { existsErrorMessage, emojiErrorMessage } THEN 444
    ELSE 500

\* lines 168-182: the status of the response
ErrorStatus(error) ==
    IF error.status # 0 THEN error.status
    ELSE IF error.message = existsErrorMessage THEN 444
    ELSE IF error.message = emojiErrorMessage THEN 555
    ELSE 500

\* lines 183-188: the response of the error handler to `error`
ErrorResponse(message) ==
    [ status |-> ErrorStatus(Error(message)), message |-> message,
      body |-> << >> ]

NoResponse == [ status |-> 0, message |-> "", body |-> << >> ]
NoRequest == [ route |-> "none", emojis |-> NoValue, url |-> NoUrl,
               id |-> << >>, num |-> 0, variant |-> "part_000" ]
\* the handler's locals; `exists` is "undefined" until keyExists has answered
NoLocals == [ emojis |-> NoValue, encodedEmojis |-> NoValue,
              exists |-> "undefined" ]

VARIABLES store, pc, req, loc, res, startLen, readLen, before

vars == << store, pc, req, loc, res, startLen, readLen, before >>

Done == { r \in Slots : pc[r] = "done" }

Init ==
    /\ store = << >>
    /\ pc = [ r \in Slots |-> "idle" ]
    /\ req = [ r \in Slots |-> NoRequest ]
    /\ loc = [ r \in Slots |-> NoLocals ]
    /\ res = [ r \in Slots |-> NoResponse ]
    /\ startLen = [ r \in Slots |-> 0 ]
    /\ readLen = [ r \in Slots |-> 0 ]
    /\ before = [ r \in Slots |-> {} ]

\* a request arrives: what the store holds and which requests are answered
\* (requests are numbered in the order they arrive)
Arrive(r, request) ==
    /\ pc[r] = "idle"
    /\ \A q \in Slots : q < r => pc[q] # "idle"
    /\ req' = [ req EXCEPT ![r] = request ]
    /\ startLen' = [ startLen EXCEPT ![r] = Len(store) ]
    /\ before' = [ before EXCEPT ![r] = Done ]

Respond(r, response) ==
    /\ pc' = [ pc EXCEPT ![r] = "done" ]
    /\ res' = [ res EXCEPT ![r] = response ]

(***************************************************************************)
(* POST /newURL                                                            *)
(***************************************************************************)
\* the check of line 148, then the document handed to urls.insert
AfterKeyCheck(r, locals) ==
    /\ loc' = [ loc EXCEPT ![r] = locals ]
    /\ IF SliceDropLast(locals.encodedEmojis) = locals.emojis
       THEN Respond(r, ErrorResponse(emojiErrorMessage))
       ELSE /\ pc' = [ pc EXCEPT ![r] = "insert" ]
            /\ UNCHANGED res

\* lines 128-137: the body is read, the slug encoded, the record validated
\* (the object validated holds `encodedEmojis` and `url`, no `emojis`)
ReceivePost(r, emojis, url) ==
    LET encodedEmojis == IF Truthy(emojis) THEN Encoded(emojis) ELSE NoValue
        invalid == Validate([ emojis |-> NoValue, url |-> url ])
    IN  /\ Arrive(r, [ NoRequest EXCEPT !.route = "newURL",
                                        !.emojis = emojis, !.url = url ])
        /\ IF invalid # ""
           THEN /\ Respond(r, ErrorResponse(invalid))
                /\ UNCHANGED loc
           ELSE /\ pc' = [ pc EXCEPT ![r] =
                             IF encodedEmojis = NoValue THEN "generate"
                                                        ELSE "keyExists" ]
                /\ loc' = [ loc EXCEPT ![r] = [ NoLocals EXCEPT
                                 !.emojis = emojis,
                                 !.encodedEmojis = encodedEmojis ] ]
                /\ UNCHANGED res
        /\ UNCHANGED << store, readLen >>

\* one round of the do-while of generateRandomEmojis: a candidate is drawn
\* and keyExists asked; a candidate in use leads back to the loop head
GenerateRandomEmojis(r, candidate) ==
    /\ pc[r] = "generate"
    /\ IF KeyExists(store, Encoded(candidate))
       THEN UNCHANGED << pc, loc, res >>
       ELSE AfterKeyCheck(r, [ loc[r] EXCEPT !.emojis = candidate,
                                  !.encodedEmojis = Encoded(candidate) ])
    /\ UNCHANGED << store, req, startLen, readLen, before >>

\* lines 140-150: keyExists on the requested slug's key
KeyExistsRequested(r) ==
    /\ pc[r] = "keyExists"
    /\ IF KeyExists(store, loc[r].encodedEmojis)
       THEN /\ Respond(r, ErrorResponse(existsErrorMessage))
            /\ loc' = [ loc EXCEPT ![r].exists = "true" ]
       ELSE AfterKeyCheck(r, [ loc[r] EXCEPT !.exists = "false" ])
    /\ UNCHANGED << store, req, startLen, readLen, before >>

\* lines 152-155: urls.insert(newURL) and the response
Insert(r) ==
    /\ pc[r] = "insert"
    /\ LET newURL == [ emojis |-> loc[r].encodedEmojis, url |-> req[r].url,
                       raw |-> loc[r].emojis ]
           created == InsertDoc(store, newURL)
       IN  /\ store' = created.docs
           /\ IF created.ok
              THEN Respond(r, [ status |-> 200, message |-> "",
                                body |-> << [ port |-> port, domain |-> domain,
                                              doc |-> created.docs[Len(created.docs)] ] >> ])
              ELSE Respond(r, ErrorResponse(duplicateKeyMessage))
    /\ UNCHANGED << req, loc, startLen, readLen, before >>

(***************************************************************************)
(* GET /:id, in both variants (https in part_000, http in api.js)          *)
(***************************************************************************)
ReceiveGetId(r, id, variant) ==
    /\ Arrive(r, [ NoRequest EXCEPT !.route = "id", !.id = id,
                                    !.variant = variant ])
    /\ pc' = [ pc EXCEPT ![r] = "findOne" ]
    /\ UNCHANGED << store, loc, res, readLen >>

Scheme(variant) == IF variant = "part_000" THEN "https" ELSE "http"

\* (mutant) the emoji URL is built from the key instead of the raw slug
ResolveResponseKeyPath(found, variant) ==
    IF found # << >>
    THEN [ status |-> 200, message |-> "",
           body |-> << [ emojiURL |-> [ scheme |-> Scheme(variant),
                                        domain |-> domain,
                                        path |-> found[1].emojis ],
                         redirectURL |-> found[1].url ] >> ]
    ELSE [ status |-> 404, message |-> "not found", body |-> << >> ]

\* the response to the result of urls.findOne({ emojis: id })
ResolveResponse(found, variant) ==
    IF found # << >>
    THEN [ status |-> 200, message |-> "",
           body |-> << [ emojiURL |-> [ scheme |-> Scheme(variant),
                                        domain |-> domain,
                                        path |-> found[1].raw ],
                         redirectURL |-> found[1].url ] >> ]
    ELSE [ status |-> 404, message |-> "not found", body |-> << >> ]

\* (mutant) a miss creates the document it looked for
GetIdUpsert(r) ==
    /\ pc[r] = "findOne"
    /\ Respond(r, ResolveResponse(FindOne(store, req[r].id), req[r].variant))
    /\ readLen' = [ readLen EXCEPT ![r] = Len(store) ]
    /\ store' = IF FindOne(store, req[r].id) = << >>
                THEN Append(store, [ id |-> Len(store) + 1, emojis |-> req[r].id,
                                     url |-> NoUrl, raw |-> req[r].id ])
                ELSE store
    /\ UNCHANGED << req, loc, startLen, before >>

\* lines 108-124: urls.findOne({ emojis: req.params.id }) and the response
GetId(r) ==
    /\ pc[r] = "findOne"
    /\ Respond(r, ResolveResponse(FindOne(store, req[r].id), req[r].variant))
    /\ readLen' = [ readLen EXCEPT ![r] = Len(store) ]
    /\ UNCHANGED << store, req, loc, startLen, before >>

(***************************************************************************)
(* GET / and GET /last/:num                                                *)
(***************************************************************************)
ReceiveList(r) ==
    /\ Arrive(r, [ NoRequest EXCEPT !.route = "list" ])
    /\ pc' = [ pc EXCEPT ![r] = "find" ]
    /\ UNCHANGED << store, loc, res, readLen >>

ReceiveLast(r, num) ==
    /\ Arrive(r, [ NoRequest EXCEPT !.route = "last", !.num = num ])
    /\ pc' = [ pc EXCEPT ![r] = "find" ]
    /\ UNCHANGED << store, loc, res, readLen >>

\* records.reverse() / records.slice(-index).reverse()
ListResponse(records) ==
    [ status |-> 200, message |-> "", body |-> Reverse(records) ]
LastResponse(records, index) ==
    [ status |-> 200, message |-> "",
      body |-> Reverse(SliceFrom(records, 0 - index)) ]

Find(r) ==
    /\ pc[r] = "find"
    /\ Respond(r, IF req[r].route = "list" THEN ListResponse(store)
                  ELSE LastResponse(store, req[r].num))
    /\ readLen' = [ readLen EXCEPT ![r] = Len(store) ]
    /\ UNCHANGED << store, req, loc, startLen, before >>

(***************************************************************************)
(* A store round trip that fails (the promise rejects, nothing is written) *)
(***************************************************************************)
\* keyExists rejects inside POST /newURL: catch, next(error), error handler
KeyExistsFails(r) ==
    /\ pc[r] \in { "generate", "keyExists" }
    /\ Respond(r, ErrorResponse(storeFailureMessage))
    /\ UNCHANGED << store, req, loc, startLen, readLen, before >>

\* urls.insert rejects for another reason than the unique index
InsertFails(r) ==
    /\ pc[r] = "insert"
    /\ Respond(r, ErrorResponse(storeFailureMessage))
    /\ UNCHANGED << store, req, loc, startLen, readLen, before >>

\* urls.findOne rejects inside GET /:id: catch, res.status(500).send("Error")
GetIdFails(r) ==
    /\ pc[r] = "findOne"
    /\ Respond(r, [ status |-> 500, message |-> "Error", body |-> << >> ])
    /\ UNCHANGED << store, req, loc, startLen, readLen, before >>

\* urls.find rejects inside GET / or GET /last/:num.  The async handlers of
\* lines 95-105 have no try/catch, so the handler's promise rejects.  A router
\* that ignores the promise a handler returns never answers the request.
FindFailsUnanswered(r) ==
    /\ pc[r] = "find"
    /\ pc' = [ pc EXCEPT ![r] = "unanswered" ]
    /\ UNCHANGED << store, req, loc, res, startLen, readLen, before >>

\* A router that passes a handler's rejection to next(error) reaches the
\* error handler of lines 167-190.
FindFailsForwarded(r) ==
    /\ pc[r] = "find"
    /\ Respond(r, ErrorResponse(storeFailureMessage))
    /\ UNCHANGED << store, req, loc, startLen, readLen, before >>

Next ==
    \E r \in Slots :
        \/ \E emojis \in RequestedSlugs, url \in Urls : ReceivePost(r, emojis, url)
        \/ \E candidate \in Candidates : GenerateRandomEmojis(r, candidate)
        \/ KeyExistsRequested(r)
        \/ Insert(r)
        \/ \E id \in Ids, variant \in Variants : ReceiveGetId(r, id, variant)
        \/ GetId(r)
        \/ ReceiveList(r)
        \/ \E num \in 0..MaxNum : ReceiveLast(r, num)
        \/ Find(r)

(***************************************************************************)
(* The helpers keyExists and generateRandomEmojis, called on their own.    *)
(* A call and its answer are one step; the answer is kept in res[r].       *)
(***************************************************************************)
\* api.js lines 59-67: the function starts urls.findOne and returns nothing;
\* the value of the inner arrow function is the value of a promise nobody
\* holds
KeyExistsApi(docs, key) == "undefined"

\* part_000 lines 60-68: `await keyExists(key)`
CallKeyExists(r, key) ==
    /\ Arrive(r, [ NoRequest EXCEPT !.route = "keyExists", !.id = key,
                                    !.variant = "part_000" ])
    /\ Respond(r, [ status |-> 0, body |-> << >>,
                    message |-> IF KeyExists(store, key) THEN "true"
                                                         ELSE "false" ])
    /\ readLen' = [ readLen EXCEPT ![r] = Len(store) ]
    /\ UNCHANGED << store, loc >>

\* api.js lines 59-67: `keyExists(key)`
CallKeyExistsApi(r, key) ==
    /\ Arrive(r, [ NoRequest EXCEPT !.route = "keyExists", !.id = key,
                                    !.variant = "api.js" ])
    /\ Respond(r, [ status |-> 0, body |-> << >>,
                    message |-> KeyExistsApi(store, key) ])
    /\ readLen' = [ readLen EXCEPT ![r] = Len(store) ]
    /\ UNCHANGED << store, loc >>

\* api.js lines 70-82: the synchronous do-while loop ends on the first draw
\* whose `exists` is not truthy and returns that draw
GenerateRandomEmojisApi(r, candidate) ==
    /\ KeyExistsApi(store, Encoded(candidate)) # "true"
    /\ Arrive(r, [ NoRequest EXCEPT !.route = "generateRandomEmojis",
                                    !.variant = "api.js" ])
    /\ Respond(r, [ status |-> 0, message |-> "", body |-> << candidate >> ])
    /\ readLen' = [ readLen EXCEPT ![r] = Len(store) ]
    /\ UNCHANGED << store, loc >>

HelperCalls ==
    \E r \in Slots :
        \/ \E key \in Ids : CallKeyExists(r, key)
        \/ \E key \in Ids : CallKeyExistsApi(r, key)
        \/ \E candidate \in Candidates : GenerateRandomEmojisApi(r, candidate)

NextHelpers == Next \/ HelperCalls

StoreFails ==
    \E r \in Slots :
        \/ KeyExistsFails(r)
        \/ InsertFails(r)
        \/ GetIdFails(r)
        \/ FindFailsUnanswered(r)
        \/ FindFailsForwarded(r)

NextStoreFails == Next \/ StoreFails

\* every store round trip completes
Spec == Init /\ [][Next]_vars

\* the routes, and the helpers called on their own
SpecHelpers == Init /\ [][NextHelpers]_vars

\* store round trips may fail
SpecStoreFails == Init /\ [][NextStoreFails]_vars

\* every store round trip completes, every handler that can continue does,
\* and the random draw does not avoid the unused candidates forever
FairSpec ==
    /\ Spec
    /\ \A r \in Slots :
        /\ WF_vars(\E candidate \in Candidates : GenerateRandomEmojis(r, candidate))
        /\ WF_vars(KeyExistsRequested(r))
        /\ WF_vars(Insert(r))
        /\ WF_vars(GetId(r))
        /\ WF_vars(Find(r))

(***************************************************************************)
(* Properties                                                              *)
(***************************************************************************)
Posts == { r \in Slots : req[r].route = "newURL" }
Answered(r) == pc[r] = "done"
Succeeded(r) == Answered(r) /\ res[r].status = 200
\* the record a successful POST /newURL returned
Created(r) == res[r].body[1].doc
DocsWithKey(key) == { i \in 1..Len(store) : store[i].emojis = key }

\* C1: in every reachable state no two stored records have the same key
\* (field `emojis`), whatever the interleaving of the POST /newURL requests.
KeysUnique ==
    \A i, j \in 1..Len(store) : store[i].emojis = store[j].emojis => i = j

\* two requests passed the pre-check for one key; the index let one in
RaceDecidedByIndex ==
    \E r1, r2 \in Posts :
        /\ r1 # r2
        /\ loc[r1].encodedEmojis = loc[r2].encodedEmojis
        /\ Succeeded(r1)
        /\ Answered(r2) /\ res[r2].message = duplicateKeyMessage

\* C2: of the POST /newURL requests that passed the keyExists pre-check for
\* the same requested slug, exactly one succeeds and every other one is
\* answered with the already-exists message and status 444.
RaceLosersGetAlreadyExists ==
    \A r1, r2 \in Posts :
        ( /\ r1 # r2
          /\ Answered(r1) /\ Answered(r2)
          /\ Truthy(req[r1].emojis) /\ req[r1].emojis = req[r2].emojis
          /\ loc[r1].exists = "false" /\ loc[r2].exists = "false"
          /\ Succeeded(r1) )
        => /\ res[r2].status = 444
           /\ res[r2].message = existsErrorMessage

\* C3: a POST /newURL without a requested slug (and with a valid url) is
\* never answered with a failure: a collision at the insert is retried and
\* the caller receives a record.
GeneratedNeverFails ==
    \A r \in Posts :
        (Answered(r) /\ ~Truthy(req[r].emojis) /\ IsUrl(req[r].url))
        => res[r].status = 200

\* r2 asked for the slug that r1 had been given before r2 arrived
AsksForTakenSlug(r1, r2) ==
    /\ r1 \in Posts /\ r2 \in Posts
    /\ r1 \in before[r2]
    /\ Succeeded(r1)
    /\ Truthy(req[r1].emojis) /\ req[r2].emojis = req[r1].emojis
    /\ Answered(r2)

RejectedAsTaken(r1, r2) ==
    /\ res[r2].status = 444
    /\ res[r2].message = existsErrorMessage
    /\ \E i \in 1..Len(store) :
          /\ DocsWithKey(Created(r1).emojis) = { i }
          /\ store[i].url = req[r1].url

\* C4 as claimed: once a POST /newURL with slug s has succeeded, every later
\* POST /newURL with slug s and any url fails with status 444, and the store
\* holds one record for the key, with the first request's target.
TakenSlugRejectedAnyUrl ==
    \A r1, r2 \in Slots : AsksForTakenSlug(r1, r2) => RejectedAsTaken(r1, r2)

\* C4: once a POST /newURL with slug s has succeeded, every later
\* POST /newURL with slug s and a well-formed url fails with status 444, and
\* the store holds one record for the key, with the first request's target.
TakenSlugRejected ==
    \A r1, r2 \in Slots :
        (AsksForTakenSlug(r1, r2) /\ IsUrl(req[r2].url))
        => RejectedAsTaken(r1, r2)

TakenSlugAskedAgain ==
    \E r1, r2 \in Slots :
        /\ AsksForTakenSlug(r1, r2)
        /\ IsUrl(req[r2].url) /\ req[r2].url # req[r1].url
        /\ res[r2].status = 444

\* C5: a POST /newURL whose url is missing or malformed is answered with a
\* 4xx status that is neither the already-exists status nor the status of
\* unexpected errors.
BadUrlIsClientError ==
    \A r \in Posts :
        (Answered(r) /\ ~IsUrl(req[r].url))
        => /\ res[r].status \in 400..499
           /\ res[r].status # ErrorStatus(Error(existsErrorMessage))
           /\ res[r].status # ErrorStatus(Error(storeFailureMessage))

\* the step answers the POST /newURL of r
AnsweredNow(r) == pc[r] # "done" /\ pc'[r] = "done" /\ req'[r].route = "newURL"

\* C6: the step that answers a POST /newURL with success appends exactly the
\* returned record to the store, the step that answers one with an error
\* leaves the store as it is, and no other step changes the store.
OneRecordPerSuccess ==
    [][ /\ \A r \in Slots :
            AnsweredNow(r) =>
                IF res'[r].status = 200
                THEN store' = Append(store, res'[r].body[1].doc)
                ELSE store' = store
        /\ store' # store =>
            \E r \in Slots : AnsweredNow(r) /\ res'[r].status = 200 ]_vars

\* one request stored its record, others failed in each way there is
SuccessAndFailures ==
    /\ Len(store) = 1
    /\ \E r \in Posts : Succeeded(r)
    /\ \E r \in Posts : Answered(r) /\ res[r].message = duplicateKeyMessage
    /\ \E r \in Posts : Answered(r) /\ res[r].message = storeFailureMessage

\* no candidate's key is unused
KeyspaceFull == \A c \in Candidates : Encoded(c) \in KeysOf(store)

\* C7: under fair scheduling and fair draws a POST /newURL without a slug
\* leaves the generate-and-check loop and is answered, unless every candidate
\* key is in use; and the key of the record it returns was not in the store
\* when the request arrived.
GenerationTerminates ==
    /\ \A r \in Slots :
          (pc[r] = "generate") ~> (pc[r] = "done" \/ KeyspaceFull)
    /\ [](\A r \in Posts :
            (Succeeded(r) /\ ~Truthy(req[r].emojis))
            => \A i \in 1..startLen[r] : store[i].emojis # Created(r).emojis)

\* a generated slug was stored while another candidate's key was in use
GeneratedBesideTaken ==
    \E r \in Posts :
        /\ Succeeded(r) /\ ~Truthy(req[r].emojis)
        /\ startLen[r] >= 1
        /\ \E c \in Candidates : Encoded(c) \in { store[i].emojis : i \in 1..startLen[r] }

\* C8: once a POST /newURL has returned a record with key k, raw r and
\* target t, every GET /:id with id = k that arrives later succeeds with an
\* emojiURL ending in r and redirectURL = t.
ResolvesToCreated ==
    \A p \in Posts, g \in Slots :
        ( /\ Succeeded(p)
          /\ p \in before[g]
          /\ req[g].route = "id" /\ req[g].id = Created(p).emojis
          /\ Answered(g) )
        => /\ res[g].status = 200
           /\ res[g].body[1].emojiURL.path = Created(p).raw
           /\ res[g].body[1].redirectURL = Created(p).url

\* a record was created, another request was answered, then it was resolved
ResolvedAfterOthers ==
    \E p \in Posts, g \in Slots, o \in Slots :
        /\ Succeeded(p) /\ p \in before[o] /\ o \in before[g] /\ o # p
        /\ req[g].route = "id" /\ req[g].id = Created(p).emojis
        /\ Answered(g) /\ res[g].status = 200

\* C9: a stored record is never changed or removed: every step keeps every
\* record, with its key, raw and target, at its place in the store.
RecordsKept ==
    [][ /\ Len(store') >= Len(store)
        /\ \A i \in 1..Len(store) : store'[i] = store[i] ]_vars

\* with a record stored, a colliding POST failed and a read was answered
StoredThenOthersRan ==
    /\ Len(store) >= 1
    /\ \E r \in Posts : Answered(r) /\ res[r].status # 200 /\ startLen[r] >= 1
    /\ \E r \in Slots : req[r].route \in { "list", "last", "id" }
                        /\ Answered(r) /\ readLen[r] >= 1

\* C10: GET /:id never changes the store, found or not, and two GET /:id
\* with the same id (on the same variant) that read the same store are
\* answered alike.
ResolveReadsOnly ==
    /\ [][ \A r \in Slots :
             (req'[r].route = "id" /\ << pc[r], req[r] >> # << pc'[r], req'[r] >>)
             => store' = store ]_vars
    /\ [](\A g1, g2 \in Slots :
            ( /\ req[g1].route = "id" /\ req[g2].route = "id"
              /\ Answered(g1) /\ Answered(g2)
              /\ req[g1].id = req[g2].id /\ req[g1].variant = req[g2].variant
              /\ readLen[g1] = readLen[g2] )
            => res[g1] = res[g2])

\* a miss and a hit were both answered, with a record in the store
MissAndHit ==
    /\ Len(store) >= 1
    /\ \E g \in Slots : req[g].route = "id" /\ Answered(g) /\ res[g].status = 404
                        /\ readLen[g] >= 1
    /\ \E g \in Slots : req[g].route = "id" /\ Answered(g) /\ res[g].status = 200

\* the step answers the GET /:id of r
ResolvedNow(r) == pc[r] = "findOne" /\ pc'[r] = "done"

\* C11: GET /:id succeeds exactly when a stored record's key equals the id
\* and answers 404 otherwise; the raw slug of a stored record, given as the
\* id, is answered 404.
ResolvesByKeyOnly ==
    [][ \A r \in Slots :
          ResolvedNow(r) =>
            /\ res'[r].status = IF req[r].id \in KeysOf(store) THEN 200 ELSE 404
            /\ (\E i \in 1..Len(store) : store[i].raw = req[r].id)
                  => res'[r].status = 404 ]_vars

\* the raw slug of a stored record was asked for, and its key was too
RawAskedAndKeyAsked ==
    /\ \E g \in Slots :
          /\ req[g].route = "id" /\ Answered(g) /\ res[g].status = 404
          /\ \E i \in 1..readLen[g] : store[i].raw = req[g].id
    /\ \E g \in Slots : req[g].route = "id" /\ Answered(g) /\ res[g].status = 200

\* C12: every stored record's key is the punycode encoding of its raw slug,
\* for requested and for generated slugs.
KeyIsEncodedRaw ==
    \A i \in 1..Len(store) : store[i].emojis = encode(store[i].raw)

\* a requested slug and a generated slug are both stored
RequestedAndGeneratedStored ==
    /\ \E r \in Posts : Succeeded(r) /\ Truthy(req[r].emojis)
    /\ \E r \in Posts : Succeeded(r) /\ ~Truthy(req[r].emojis)

\* the records a GET /last/:num read, the store being append-only
ReadByLast(r) == SubSeq(store, 1, readLen[r])
Min(a, b) == IF a <= b THEN a ELSE b

\* C13: GET /last/:n over a store of m records returns exactly min(n, m)
\* records, the most recently created ones, most recent first; n = 0 returns
\* no record.
LastReturnsMostRecent ==
    \A r \in Slots :
        (req[r].route = "last" /\ Answered(r) /\ res[r].status = 200) =>
            LET m == readLen[r]
                k == Min(req[r].num, m)
            IN  /\ Len(res[r].body) = k
                /\ \A j \in 1..k : res[r].body[j] = ReadByLast(r)[m - j + 1]

\* the step is a store round trip of r that fails
RoundTripFails(r) ==
    \/ KeyExistsFails(r)
    \/ InsertFails(r)
    \/ GetIdFails(r)
    \/ FindFailsUnanswered(r)
    \/ FindFailsForwarded(r)

\* C14: a store round trip that fails during any route is answered with
\* status 500, the operation is not tried again, and the request persists
\* no record.
StoreFailureIsServerError ==
    [][ \A r \in Slots :
          RoundTripFails(r) =>
            /\ pc'[r] = "done"
            /\ res'[r].status = 500
            /\ store' = store ]_vars

\* a string with a code point outside ASCII
HasNonAscii(s) == \E j \in 1..Len(s) : s[j] >= initialN
\* POST /newURL with a slug of ASCII characters only and a well-formed url
AsksForAsciiSlug(r) ==
    /\ r \in Posts
    /\ Truthy(req[r].emojis) /\ ~HasNonAscii(req[r].emojis)
    /\ req[r].url \in GoodUrls
    /\ Answered(r)

\* C15 as stated: a slug already in canonical form is rejected with the
\* message and status of a slug whose key is stored (444).
AsciiSlugRejectedAsTaken ==
    \A r \in Slots :
        AsksForAsciiSlug(r) =>
            res[r].status = 444 /\ res[r].message = existsErrorMessage

\* C15 (amended): a slug of ASCII characters only is rejected with the
\* no-emoji message and status 555, which is not the status of a taken slug,
\* and no record is stored for it.
AsciiSlugRejectedAsNoEmoji ==
    \A r \in Slots :
        AsksForAsciiSlug(r) =>
            /\ res[r].status = 555 /\ res[r].message = emojiErrorMessage
            /\ res[r].status # ErrorStatus(Error(existsErrorMessage))
            /\ \A i \in 1..Len(store) : store[i].raw # req[r].emojis

\* an ASCII slug was refused while a taken slug was refused too
AsciiSlugAndTakenSlugRefused ==
    /\ \E r \in Slots : AsksForAsciiSlug(r) /\ res[r].status = 555
    /\ \E r \in Posts : Answered(r) /\ res[r].status = 444

\* C16: every stored record has a raw slug that is not empty and is not its
\* key without the trailing delimiter, so it holds a non-ASCII glyph; this
\* covers requested slugs, generated slugs and requests with emojis = "".
RawHasEmoji ==
    \A i \in 1..Len(store) :
        /\ store[i].raw # NoValue
        /\ store[i].raw # << >>
        /\ SubSeq(store[i].emojis, 1, Len(store[i].emojis) - 1) # store[i].raw
        /\ HasNonAscii(store[i].raw)

\* records were stored for a request with emojis = "" and for a slug that
\* mixes a letter and a glyph, and an ASCII slug was asked for
EmptyMixedAndAsciiAsked ==
    /\ \E r \in Posts : Succeeded(r) /\ req[r].emojis = << >>
    /\ \E r \in Posts : Succeeded(r) /\ req[r].emojis = << 97, 128049 >>
    /\ \E r \in Posts : Answered(r) /\ req[r].emojis = << 97 >>
                            /\ req[r].url \in GoodUrls

\* POST /newURL that carries a slug the schema's `emojis` rule refuses
CarriesRefusedSlug(r) ==
    /\ r \in Posts
    /\ req[r].emojis # NoValue
    /\ req[r].emojis = << >> \/ ~MatchesSlugPattern(req[r].emojis)
    /\ req[r].url \in GoodUrls

\* C17: a requested slug is validated before any store access: an empty
\* slug, or one that does not match the schema's pattern, is answered with
\* the validation error, and no slug is generated or stored for it.
RefusedSlugNeverReachesStore ==
    \A r \in Slots :
        CarriesRefusedSlug(r) =>
            /\ pc[r] = "done"
            /\ res[r].message = emojisMatchMessage
            /\ loc[r] = NoLocals

\* the keys of the records held when r made its query
KeysReadBy(r) == KeysOf(SubSeq(store, 1, readLen[r]))

\* C18: in both variants keyExists(key) answers true exactly when the store
\* holds a record with that key at the time of the query (an answer that is
\* not true counts as false), and generateRandomEmojis returns only a slug
\* whose key was absent.
KeyExistsAnswersTruth ==
    /\ \A r \in Slots :
          (req[r].route = "keyExists" /\ Answered(r)) =>
              (res[r].message = "true" <=> req[r].id \in KeysReadBy(r))
    /\ \A r \in Slots :
          (req[r].route = "generateRandomEmojis" /\ Answered(r)) =>
              encode(res[r].body[1]) \notin KeysReadBy(r)
    /\ \A r \in Posts :
          (req[r].emojis \in { NoValue, << >> } /\ pc[r] = "insert") =>
              \A i \in 1..startLen[r] : store[i].emojis # loc[r].encodedEmojis

=============================================================================
